---- MODULE Spec2Model ----
(***************************************************************************)
(* The model-monitor notebooks as a state machine.                         *)
(*                                                                         *)
(* The repository holds four notebook documents: three revisions of        *)
(* monitoring_data_quality_of_models (called N1, N2, N3 below, in the      *)
(* order they appear in the checkpoint file) and the iris notebook         *)
(* (IRIS).  Each is a straight-line script of code cells run top to        *)
(* bottom; an exception raised by any call ends the run.  The external     *)
(* service (object storage, the SageMaker control plane, the endpoint) is  *)
(* the environment: each call either returns or raises, and the statuses   *)
(* it reports follow the life cycle of the resource.                       *)
(***************************************************************************)
EXTENDS Integers, Sequences, FiniteSets, TLC

VARIABLES
    nb,                     \* which notebook runs
    pc,                     \* index of the next instruction of Program(nb)
    halted,                 \* "no", or "failed" once an exception has propagated
    kernel_has_keys,        \* whether the kernel namespace binds TRAINING_KEYS
    TRAINING_KEYS,          \* the list the kernel binds to that name, if any
    log,                    \* every external call and sleep, in issue order
    created,                \* resources whose create call has succeeded and that are not deleted
    svc_endpoint,           \* the endpoint's status inside the service
    svc_job,                \* the baseline job's status inside the service
    model_endpoint_status,  \* the notebook's variable of that name
    processing_job_status,  \* the notebook's variable of that name
    polls,                  \* iterations of the current poll loop so far
    csv,                    \* the content of the CSV file read last, cell by cell
    df,                     \* the data frame read last
    samples,                \* the notebook's variable of that name
    index,                  \* enumerate() position inside the current replay loop
    submitted,              \* the samples handed to predictor.predict, in order
    payloads,               \* the request bodies the serializer made of them, in order
    triples                 \* the printed (index, input, prediction) lines, in order

vars == <<nb, pc, halted, kernel_has_keys, TRAINING_KEYS, log, created,
          svc_endpoint, svc_job,
          model_endpoint_status, processing_job_status, polls, csv, df,
          samples, index, submitted, payloads, triples>>

----------------------------------------------------------------------------
\* Bounds of the exploration.

\* rows of a data frame
MaxRows == 2
\* columns of a data frame
MaxFields == 1
\* iterations of one poll loop that are explored
MaxPolls == 2

\* field values as they appear in the CSV text: one that reads as an integer
\* and one that reads as a floating point number
IntTexts == {"-3"}
FloatTexts == {"5.0"}
Vals == IntTexts \cup FloatTexts
\* a field with nothing between its delimiters
Missing == ""

Notebooks == {"N1", "N2", "N3", "IRIS"}

----------------------------------------------------------------------------
\* Program constants.

PollIntervalMs == 45000
SettleMs == 30000
PredictDelayMs == 500
batch_size == 15
\* samples[0:10], samples[10:20], samples[20:] of N1
SliceA == 10
SliceB == 20
\* the open end of a slice (samples[20:])
ToEnd == -1

----------------------------------------------------------------------------
\* Name constants of the notebooks (section "Globals" of each).

MODEL_NAME(n) ==
    CASE n = "N1" -> "propensity-model"
      [] n = "N2" -> "third-party-model"
      [] n = "N3" -> "third-party-model-2"
      [] OTHER    -> "third-party-model"

MODEL_ENDPOINT(n) ==
    CASE n = "N1" -> "propensity-model-endpoint"
      [] n = "N2" -> "third-party-model-endpoint"
      [] n = "N3" -> "third-party-model-endpoint-2"
      [] OTHER    -> "third-party-model-endpoint"

MODEL_ENDPOINT_CONFIG(n) ==
    CASE n = "N1" -> "propensity-model-endpoint-config"
      [] n = "N2" -> "third-party-model-endpoint-config"
      [] n = "N3" -> "third-party-model-endpoint-config-2"
      [] OTHER    -> "third-party-model-endpoint-config"

MODEL_MONITOR_SCHEDULE_NAME(n) ==
    CASE n = "N1" -> "propensity-model-data-quality-schedule"
      [] n = "N2" -> "third-party-model-data-quality-schedule"
      [] n = "N3" -> "third-party-model-data-quality-schedule-2"
      [] OTHER    -> "third-party-model-data-quality-schedule"

\* MODEL_BASELINE_JOB with the timestamp appended
job_name(n) ==
    CASE n = "N1" -> "propensity-model-baseline-job-<time>"
      [] n = "N2" -> "third-party-model-baseline-job-<time>"
      [] n = "N3" -> "third-party-model-baseline-job-2-<time>"
      [] OTHER    -> "none"

DATASETS(n) ==
    CASE n = "N1" -> <<"baseline.csv", "data_quality_drift.csv">>
      [] n = "N2" -> <<"baseline.csv", "data_quality_drift.csv">>
      [] n = "N3" -> <<"train.csv", "datadrift.csv">>
      [] OTHER    -> <<"train.csv">>

PREFIX(n) ==
    IF n = "N1" THEN "propensity-model-seller-name"
    ELSE "third-party-model-seller-name"

S3_DATA_CAPTURE_URI(n) == "s3://<BUCKET>/" \o PREFIX(n) \o "/datacapture"

\* What a kernel that still binds TRAINING_KEYS can hold under the name: the
\* list is bound by no cell of N3, so it is whatever an earlier session left,
\* the file names of DATASETS or others.
LeftoverKeys == { << "train.csv", "datadrift.csv" >>, << "training.csv" >> }

\* A resource of the service: its kind and its name.
Res(kind, name) == <<kind, name>>
NoRes == <<"", "">>

ModelRes(n)     == Res("model", MODEL_NAME(n))
ConfigRes(n)    == Res("endpoint-config", MODEL_ENDPOINT_CONFIG(n))
EndpointRes(n)  == Res("endpoint", MODEL_ENDPOINT(n))
JobRes(n)       == Res("processing-job", job_name(n))
ScheduleRes(n)  == Res("monitoring-schedule", MODEL_MONITOR_SCHEDULE_NAME(n))
ObjectRes(n, f) == Res("object", "<PREFIX>/train/" \o f)

\* S3_BASELINE_DATASET_URI, as the object it names: 'baseline.csv' in N1,
\* DATASETS[0] in N2, TRAINING_KEYS[0] in N3
S3_BASELINE_DATASET_URI(n) ==
    CASE n = "N1" -> ObjectRes(n, "baseline.csv")
      [] n = "N2" -> ObjectRes(n, DATASETS(n)[1])
      [] OTHER    -> ObjectRes(n, TRAINING_KEYS[1])

----------------------------------------------------------------------------
\* Instructions.  A notebook is a sequence of them; every external call is
\* one instruction, so that the point where an exception leaves the script
\* is exact.

\* the DataCaptureConfig of a request that carries none
NoCapture == [EnableCapture |-> FALSE, InitialSamplingPercentage |-> 0,
              DestinationS3Uri |-> "", CaptureOptions |-> {},
              CsvContentTypes |-> {}]

Nop == [kind |-> "nop", op |-> "", target |-> NoRes, refs |-> {},
        creates |-> {}, deletes |-> {}, ep |-> {}, job |-> {}, ms |-> 0,
        lo |-> 0, hi |-> 0, style |-> "", capture |-> NoCapture]

\* a call that creates `target`, naming the resources `refs`
Create(op, target, refs) ==
    [Nop EXCEPT !.kind = "call", !.op = op, !.target = target, !.refs = refs,
                !.creates = {target}]

\* a call that deletes `target`
Delete(op, target) ==
    [Nop EXCEPT !.kind = "call", !.op = op, !.target = target,
                !.deletes = {target}]

\* any other call on `target` (stop, describe, list, get, read)
Call(op, target) ==
    [Nop EXCEPT !.kind = "call", !.op = op, !.target = target]

\* time.sleep(ms / 1000)
SleepFor(ms) == [Nop EXCEPT !.kind = "sleep", !.op = "sleep", !.ms = ms]

Step(kind) == [Nop EXCEPT !.kind = kind]

\* for index, sample in enumerate(samples[lo:hi]) with the body `style`
Replay(style, lo, hi) ==
    [Nop EXCEPT !.kind = "replay", !.style = style, !.lo = lo, !.hi = hi]

\* building `samples` from a data frame, the way `style` does it
Load(style) == [Nop EXCEPT !.kind = "load", !.style = style]

\* `ins` with DataCaptureConfig=params
WithCapture(ins, params) == [ins EXCEPT !.capture = params]

\* `ins`, after which the service holds the endpoint in one of `statuses`
WithEndpoint(ins, statuses) == [ins EXCEPT !.ep = statuses]

\* `ins`, after which the service holds the baseline job in one of `statuses`
WithJob(ins, statuses) == [ins EXCEPT !.job = statuses]

----------------------------------------------------------------------------
\* The cells of the notebooks, in the order of the documents.

\* N1: the two upload cells (local files, upload_fileobj)
UploadCellsN1 ==
    << Create("upload_fileobj", ObjectRes("N1", "baseline.csv"), {}),
       Create("upload_fileobj", ObjectRes("N1", "data_quality_drift.csv"), {}) >>

\* N2, N3: for file_name in DATASETS: requests.get, then put_object
UploadLoop(n) ==
    LET fs == DATASETS(n) IN
    [i \in 1..(2 * Len(fs)) |->
        IF i % 2 = 1
        THEN Call("requests.get", Res("url", fs[(i + 1) \div 2]))
        ELSE Create("put_object", ObjectRes(n, fs[i \div 2]), {})]

\* IRIS: put_object of the in-memory CSV
UploadCellIris ==
    << Create("put_object", Res("object", "iris/train/train.csv"), {}) >>

\* N1: DataCaptureConfig(enable_capture=True, sampling_percentage=100,
\* destination_s3_uri=S3_DATA_CAPTURE_URI, csv_content_types=["text/csv"]);
\* capture_options is left to the SDK, which captures request and response
data_capture_config ==
    [EnableCapture |-> TRUE, InitialSamplingPercentage |-> 100,
     DestinationS3Uri |-> S3_DATA_CAPTURE_URI("N1"),
     CaptureOptions |-> {"Input", "Output"},
     CsvContentTypes |-> {"text/csv"}]

\* N1: model.deploy(1, type, endpoint_name=MODEL_ENDPOINT, data_capture_config=...).
\* The SDK names the model itself and names the endpoint configuration after the
\* endpoint; it returns once the endpoint is in service.
DeployedModelRes == Res("model", "<model.name>")
DeployCellN1 ==
    << WithEndpoint(
         [Create("deploy", EndpointRes("N1"), {}) EXCEPT
            !.creates = {DeployedModelRes,
                         Res("endpoint-config", MODEL_ENDPOINT("N1")),
                         EndpointRes("N1")},
            !.capture = data_capture_config],
         {"InService"}) >>

\* N2 sections 2.1-2.3, N3 create_model / create_model_endpoint_config /
\* create_model_endpoint and the cells calling them
CreateModelCell(n) == << Create("create_model", ModelRes(n), {}) >>
\* the DataCaptureConfig of create_endpoint_config
data_capture_params(n) ==
    [EnableCapture |-> TRUE, InitialSamplingPercentage |-> 100,
     DestinationS3Uri |-> S3_DATA_CAPTURE_URI(n),
     CaptureOptions |-> {"Input", "Output"},
     CsvContentTypes |-> {"text/csv"}]

\* the endpoint configuration created without DataCaptureConfig (a bug
\* variant)
CreateEndpointConfigCellNoCapture(n) ==
    << Create("create_endpoint_config", ConfigRes(n), {ModelRes(n)}) >>

CreateEndpointConfigCell(n) ==
    << WithCapture(Create("create_endpoint_config", ConfigRes(n), {ModelRes(n)}),
                   data_capture_params(n)) >>
CreateEndpointCell(n) ==
    << WithEndpoint(Create("create_endpoint", EndpointRes(n), {ConfigRes(n)}),
                    {"Creating"}) >>
\* the endpoint created before its configuration (a bug variant)
ProvisionCellsSwapped(n) ==
    CreateModelCell(n) \o CreateEndpointCell(n) \o CreateEndpointConfigCell(n)

ProvisionCells(n) ==
    CreateModelCell(n) \o CreateEndpointConfigCell(n) \o CreateEndpointCell(n)

\* section 2.4: the first describe_endpoint, then the while loop
EndpointPollCell == << Step("describe_endpoint"), Step("poll_endpoint") >>

\* N1, N2: suggest_baseline(..., wait=True); N2 adds job.wait(logs=False)
BaselineCellN1 ==
    << WithJob(Create("suggest_baseline", JobRes("N1"), {}),
               {"Completed", "Stopped"}) >>
BaselineCellN2 ==
    << WithJob(Create("suggest_baseline", JobRes("N2"), {}),
               {"Completed", "Stopped"}),
       Call("job.wait", JobRes("N2")) >>

\* N3: create_baselining_job(MODEL_BASELINE_JOB) with wait_for_job_finish=False
create_baselining_job ==
    << WithJob(Create("suggest_baseline", JobRes("N3"), {}), {"InProgress"}) >>

\* N3 section 3.2: the first describe_processing_job, then the while loop
JobPollCell == << Step("describe_job"), Step("poll_job") >>

\* create_monitoring_schedule(...): the two baseline artifacts are read first
\* (arguments are evaluated before the call), then the schedule is registered;
\* the next cell sleeps 30 s and describes the schedule
create_monitoring_schedule(n) ==
    << Call("baseline_statistics", JobRes(n)),
       Call("suggested_constraints", JobRes(n)),
       Create("create_monitoring_schedule", ScheduleRes(n),
              {EndpointRes(n), JobRes(n)}) >>
DescribeScheduleCell(n) ==
    << SleepFor(SettleMs), Call("describe_schedule", ScheduleRes(n)) >>

\* section 5.2 of N1: read_csv of the local file, then the three sliced loops
ReplayCellsN1 ==
    << Load("zip"),
       Replay("n1", 0, SliceA),
       Replay("n1", SliceA, SliceB),
       Replay("n1", SliceB, ToEnd) >>

\* section 5.2 of N2: for file_name in DATASETS[1:]: get_object, read_csv,
\* columns, zip, loop
ReplayCellN2 ==
    << Call("get_object", ObjectRes("N2", DATASETS("N2")[2])),
       Load("zip"),
       Replay("predict", 0, ToEnd) >>

\* section 5.2 of N3: get_object, read_csv, df.values.tolist(), loop
ReplayCellN3 ==
    << Call("get_object", ObjectRes("N3", DATASETS("N3")[2])),
       Load("tolist"),
       Replay("predict", 0, ToEnd) >>

\* IRIS: the baseline replay and the drift replay
ReplayCellsIris ==
    << Load("iris"),
       Replay("guarded", 0, batch_size),
       Load("drift"),
       Replay("joined", 0, ToEnd) >>

\* N1 section 6.3: list_monitoring_executions and the [0] subscript
VisualizeCellN1 == << Call("list_monitoring_executions", EndpointRes("N1")) >>

\* N1: Cleanup Resources (two cells)
CleanupN1 ==
    << Call("stop_monitoring_schedule", ScheduleRes("N1")),
       SleepFor(SettleMs),
       Delete("delete_monitoring_schedule", ScheduleRes("N1")),
       Delete("delete_endpoint", EndpointRes("N1")),
       Delete("delete_endpoint_config", ConfigRes("N1")),
       Delete("delete_model", DeployedModelRes) >>

\* the cleanup of N2 with the endpoint configuration deleted before the
\* endpoint (a bug variant)
CleanupN2Swapped ==
    << Call("stop_monitoring_schedule", ScheduleRes("N2")),
       SleepFor(SettleMs),
       Call("list_monitoring_schedules", EndpointRes("N2")),
       Delete("delete_monitoring_schedule", ScheduleRes("N2")),
       SleepFor(SettleMs),
       Call("list_monitoring_schedules", EndpointRes("N2")),
       Delete("delete_endpoint_config", ConfigRes("N2")),
       SleepFor(SettleMs),
       Call("list_endpoint_configs", ConfigRes("N2")),
       Delete("delete_endpoint", EndpointRes("N2")),
       SleepFor(SettleMs),
       Call("list_endpoints", EndpointRes("N2")),
       Delete("delete_model", ModelRes("N2")),
       SleepFor(SettleMs),
       Call("list_models", ModelRes("N2")) >>

\* N2: Cleanup Resources, steps 1 to 5
CleanupN2 ==
    << Call("stop_monitoring_schedule", ScheduleRes("N2")),
       SleepFor(SettleMs),
       Call("list_monitoring_schedules", EndpointRes("N2")),
       Delete("delete_monitoring_schedule", ScheduleRes("N2")),
       SleepFor(SettleMs),
       Call("list_monitoring_schedules", EndpointRes("N2")),
       Delete("delete_endpoint", EndpointRes("N2")),
       SleepFor(SettleMs),
       Call("list_endpoints", EndpointRes("N2")),
       Delete("delete_endpoint_config", ConfigRes("N2")),
       SleepFor(SettleMs),
       Call("list_endpoint_configs", ConfigRes("N2")),
       Delete("delete_model", ModelRes("N2")),
       SleepFor(SettleMs),
       Call("list_models", ModelRes("N2")) >>

\* N3 and IRIS: the cleanup cell is a string literal / all comments
CleanupNone == << >>

Cleanup(n) ==
    CASE n = "N1" -> CleanupN1
      [] n = "N2" -> CleanupN2
      [] OTHER    -> CleanupNone

\* the cells before the cleanup with the replay moved ahead of the schedule
\* (a bug variant)
BodyReplayFirst(n) ==
    CASE n = "N2" ->
            << Step("globals") >> \o UploadLoop("N2") \o ProvisionCells("N2")
            \o EndpointPollCell \o BaselineCellN2 \o ReplayCellN2
            \o create_monitoring_schedule("N2") \o DescribeScheduleCell("N2")
      [] n = "N1" ->
            << Step("globals") >> \o UploadCellsN1 \o DeployCellN1
            \o BaselineCellN1 \o ReplayCellsN1 \o create_monitoring_schedule("N1")
            \o DescribeScheduleCell("N1") \o VisualizeCellN1
      [] n = "N3" ->
            << Step("globals") >> \o UploadLoop("N3") \o ProvisionCells("N3")
            \o EndpointPollCell \o create_baselining_job \o JobPollCell
            \o ReplayCellN3
            \o create_monitoring_schedule("N3") \o DescribeScheduleCell("N3")
      [] OTHER ->
            UploadCellIris \o ReplayCellsIris

\* everything before the cleanup cells
Body(n) ==
    CASE n = "N1" ->
            << Step("globals") >> \o UploadCellsN1 \o DeployCellN1
            \o BaselineCellN1 \o create_monitoring_schedule("N1")
            \o DescribeScheduleCell("N1") \o ReplayCellsN1 \o VisualizeCellN1
      [] n = "N2" ->
            << Step("globals") >> \o UploadLoop("N2") \o ProvisionCells("N2")
            \o EndpointPollCell \o BaselineCellN2
            \o create_monitoring_schedule("N2") \o DescribeScheduleCell("N2")
            \o ReplayCellN2
      [] n = "N3" ->
            << Step("globals") >> \o UploadLoop("N3") \o ProvisionCells("N3")
            \o EndpointPollCell \o create_baselining_job \o JobPollCell
            \o create_monitoring_schedule("N3") \o DescribeScheduleCell("N3")
            \o ReplayCellN3
      [] OTHER ->
            UploadCellIris \o ReplayCellsIris

\* the whole script of each notebook
Programs == [n \in Notebooks |-> Body(n) \o Cleanup(n)]
Program(n) == Programs[n]

----------------------------------------------------------------------------
\* Data frames and the conversions the notebooks apply to them.  A frame is
\* held by column, as pandas holds it: its column labels, the length of its
\* index and one list of values per column.  The frame with no columns is
\* kept among the inputs: it is the one shape whose rows have length zero,
\* the case the "defensive coding" guards are written for.  A CSV file is
\* held the same way, its cells being the texts between the delimiters; a
\* cell of a frame is a value with its type, written as Python prints it.

ColNames == <<"0", "1", "2", "3", "4">>

FramesOfShape(c, r) ==
    { [columns |-> SubSeq(ColNames, 1, c), nrows |-> r, data |-> d] :
        d \in [1..c -> [1..r -> Vals]] }

Frames == UNION { FramesOfShape(c, r) : c \in 0..MaxFields, r \in 0..MaxRows }

\* Files shaped like data_quality_drift.csv: long enough for the three slices
\* of N1, two columns, the second one alternating between two texts either of
\* which may be missing.
DriftTables ==
    LET N == SliceB + 2 IN
    { [columns |-> SubSeq(ColNames, 1, 2), nrows |-> N,
       data |-> << [i \in 1..N |-> a],
                   [i \in 1..N |-> IF i % 2 = 1 THEN x ELSE y] >>] :
        a \in Vals, x \in Vals \cup {Missing}, y \in Vals \cup {Missing} }

\* A feature table shaped like load_iris().data, longer than one batch: one
\* column, batch_size + 2 rows, every row a different measurement, so that a
\* value tells which row it comes from.
IrisTexts ==
    << "5.1", "4.9", "4.7", "4.6", "5.0", "5.4", "4.4", "4.8", "4.3", "5.8",
       "5.7", "5.2", "5.5", "4.5", "5.3", "6.0", "6.1" >>
IrisTable ==
    LET N == batch_size + 2 IN
    [columns |-> SubSeq(ColNames, 1, 1), nrows |-> N,
     data |-> << [i \in 1..N |-> IrisTexts[i]] >>]

\* the feature tables the iris notebook is explored with
IrisTables == Frames \cup { IrisTable }

\* Files shaped like datadrift.csv of N3: two columns, two rows, either field
\* of the second column possibly missing.
MissingTables ==
    { [columns |-> SubSeq(ColNames, 1, 2), nrows |-> 2,
       data |-> << << a, a >>, << x, y >> >>] :
        a \in Vals, x \in Vals \cup {Missing}, y \in Vals \cup {Missing} }

Range(f) == { f[i] : i \in DOMAIN f }

MinOf(S) == CHOOSE x \in S : \A y \in S : x <= y

\* str() of the float a text reads as
FloatRepr(t) ==
    IF t = Missing THEN "nan" ELSE IF t \in IntTexts THEN t \o ".0" ELSE t

IntCell(t)   == [dtype |-> "int", repr |-> t]
FloatCell(t) == [dtype |-> "float", repr |-> FloatRepr(t)]
StrCell(t)   == [dtype |-> "str", repr |-> t]

\* The type read_csv gives a column: int64 when every cell reads as an
\* integer, float64 when every cell reads as a number, object (the texts
\* themselves) otherwise.  With na_filter on, a missing cell reads as NaN, a
\* float; with na_filter=False it stays the empty text.
ColumnDtype(cells, na_filter) ==
    LET S == Range(cells)
        numbers == IntTexts \cup FloatTexts
                   \cup (IF na_filter THEN {Missing} ELSE {})
    IN IF S \subseteq IntTexts THEN "int"
       ELSE IF S \subseteq numbers THEN "float"
       ELSE "str"

\* pd.read_csv(file, header=None, na_filter=...)
read_csv(table, na_filter) ==
    [columns |-> table.columns,
     nrows   |-> table.nrows,
     data    |-> [j \in 1..Len(table.columns) |->
                    LET t == ColumnDtype(table.data[j], na_filter) IN
                    [i \in 1..table.nrows |->
                        CASE t = "int"   -> IntCell(table.data[j][i])
                          [] t = "float" -> FloatCell(table.data[j][i])
                          [] OTHER       -> StrCell(table.data[j][i])]]]

\* pd.DataFrame(iris_data.data, columns=cols): a table of floats
DataFrame(table) ==
    [columns |-> table.columns,
     nrows   |-> table.nrows,
     data    |-> [j \in 1..Len(table.columns) |->
                    [i \in 1..table.nrows |-> FloatCell(table.data[j][i])]]]

\* df.values.tolist(): one list per index entry, across the columns.
\* df.values is one array of one type: integers become floats as soon as one
\* column holds floats; with a column of texts every value keeps its own type.
values_tolist(frame) ==
    LET kinds == { frame.data[j][i].dtype :
                      j \in 1..Len(frame.columns), i \in 1..frame.nrows }
        upcast(c) == IF "str" \notin kinds /\ "float" \in kinds /\ c.dtype = "int"
                     THEN FloatCell(c.repr) ELSE c
    IN [i \in 1..frame.nrows |->
          [j \in 1..Len(frame.columns) |-> upcast(frame.data[j][i])]]

\* [df[x].values.tolist() for x in df.columns]
column_lists(frame) == [j \in 1..Len(frame.columns) |-> frame.data[j]]

\* the unzip step left out: the per-column lists taken for the rows (a bug
\* variant)
zip_star_omitted(cols) == cols

\* list(list(x) for x in zip(*cols)): as long as the shortest column, and
\* empty when there is no column at all
zip_star(cols) ==
    IF Len(cols) = 0 THEN << >>
    ELSE LET m == MinOf({ Len(cols[j]) : j \in 1..Len(cols) }) IN
         [i \in 1..m |-> [j \in 1..Len(cols) |-> cols[j][i]]]

\* iris_df.insert(loc=0, column='class', value=labels)
insert_class(frame) ==
    [columns |-> << "class" >> \o frame.columns,
     nrows   |-> frame.nrows,
     data    |-> << [i \in 1..frame.nrows |-> StrCell("setosa")] >> \o frame.data]

\* the label column left in place (a bug variant)
drop_class_skipped(frame) == frame

\* the positions of the columns that are kept by drop(columns=['class'])
KeptColumns(frame) ==
    LET F[j \in 0..Len(frame.columns)] ==
            IF j = 0 THEN << >>
            ELSE IF frame.columns[j] = "class" THEN F[j - 1]
                 ELSE Append(F[j - 1], j)
    IN F[Len(frame.columns)]

\* if('class' in iris_df.columns): iris_df = iris_df.drop(columns=['class'])
drop_class(frame) ==
    IF "class" \in Range(frame.columns)
    THEN LET keep == KeptColumns(frame) IN
         [columns |-> [k \in 1..Len(keep) |-> frame.columns[keep[k]]],
          nrows   |-> frame.nrows,
          data    |-> [k \in 1..Len(keep) |-> frame.data[keep[k]]]]
    ELSE frame

\* s[lo:hi] of Python for 0 <= lo, and hi either >= 0 or absent (ToEnd)
PySlice(s, lo, hi) ==
    LET h == IF hi = ToEnd \/ hi > Len(s) THEN Len(s) ELSE hi IN
    IF lo >= h THEN << >> ELSE SubSeq(s, lo + 1, h)

\* the rearrangements of 1..n that are explored: all of them for a list no
\* longer than the frames of `Frames`; for a longer one the n rotations,
\* forwards and backwards
Rearrangements(n) ==
    IF n <= MaxRows THEN Permutations(1..n)
    ELSE { [i \in 1..n |-> ((i + r - 1) % n) + 1] : r \in 0..(n - 1) }
         \cup { [i \in 1..n |-> n - ((i + r - 1) % n)] : r \in 0..(n - 1) }

\* a shuffle that draws every position afresh, so that a row can come up
\* twice (a bug variant)
ShufflesWithReplacement(s) ==
    { [i \in 1..Len(s) |-> s[p[i]]] : p \in Rearrangements(Len(s)) }
    \cup { [i \in 1..Len(s) |-> s[1]] }

\* the outcomes of random.shuffle(s): rearrangements of s
Shuffles(s) ==
    { [i \in 1..Len(s) |-> s[p[i]]] : p \in Rearrangements(Len(s)) }

\* a join that ends every field with the delimiter (a bug variant)
JoinTrailing(item) ==
    [i \in 1..(2 * Len(item)) |-> IF i % 2 = 1 THEN item[(i + 1) \div 2] ELSE ","]

\* ",".join(item): the texts of the fields with one "," between neighbours
RECURSIVE Join(_)
Join(item) ==
    IF Len(item) = 0 THEN << >>
    ELSE IF Len(item) = 1 THEN << item[1] >>
    ELSE << item[1], "," >> \o Join(Tail(item))

\* rows np.random.uniform(low=-5, high=5, size=(batch_size, 4)).astype('i')
\* can give, as text
DriftRowChoices == { << "2", "4", "1", "-3" >>, << "0", "0", "-4", "3" >> }

\* the generated drift matrices that are explored: two rows alternating
DriftMatrices ==
    { [i \in 1..batch_size |-> IF i % 2 = 1 THEN a ELSE b] :
        a \in DriftRowChoices, b \in DriftRowChoices }

\* sample_drift_data before the join: batch_size rows of four integers, held
\* like a frame
Matrix(m) ==
    [columns |-> SubSeq(ColNames, 1, Len(m[1])),
     nrows   |-> Len(m),
     data    |-> [j \in 1..Len(m[1]) |-> [i \in 1..Len(m) |-> IntCell(m[i][j])]]]

\* the files a cell can read: N1 and N2 read data_quality_drift.csv, N3 reads
\* datadrift.csv; the cells of IRIS read none
EmptyFrame == [columns |-> << >>, nrows |-> 0, data |-> << >>]
LoadedTables(style) ==
    CASE style = "zip"    -> Frames \cup DriftTables
      [] style = "tolist" -> Frames \cup MissingTables
      [] OTHER            -> { EmptyFrame }

\* the frames a cell can start from: N1 and N2 parse the file with
\* na_filter=False, N3 with the default; IRIS adds the label column to the
\* feature table, and its baseline cell run once more in the same kernel
\* finds iris_df as the first run left it, without the label column; the
\* drift cell of IRIS starts from the generated matrix
LoadedFrames(style, table) ==
    CASE style = "zip"    -> { read_csv(table, FALSE) }
      [] style = "tolist" -> { read_csv(table, TRUE) }
      [] style = "iris"   ->
            { insert_class(DataFrame(f)) : f \in IrisTables }
            \cup { drop_class(insert_class(DataFrame(f))) : f \in IrisTables }
      [] OTHER            -> { Matrix(m) : m \in DriftMatrices }

\* what the cell that builds `samples` can leave in it, given the frame it
\* starts from
LoadedSamples(style, frame) ==
    CASE style = "zip"    -> { zip_star(column_lists(frame)) }
      [] style = "tolist" -> { values_tolist(frame) }
      [] style = "iris"   ->
            Shuffles(PySlice(values_tolist(drop_class(frame)), 1, ToEnd))
      [] OTHER            ->
            { [i \in 1..frame.nrows |->
                 Join([j \in 1..Len(frame.columns) |-> frame.data[j][i].repr])] }

----------------------------------------------------------------------------
\* The status life cycles the service reports.

\* what describe_endpoint can report next, given what the service held
EndpointNext(s) ==
    IF s = "Creating" THEN {"Creating", "InService", "Failed"} ELSE {s}

\* what describe_processing_job can report next
JobNext(s) ==
    CASE s = "InProgress" -> {"InProgress", "Completed", "Failed", "Stopping"}
      [] s = "Stopping"   -> {"Stopping", "Stopped"}
      [] OTHER            -> {s}

\* the endpoint loop with its test inverted (a bug variant)
EndpointLoopConditionInverted(status) == status # "Creating"

\* while model_endpoint_status == 'Creating':
EndpointLoopCondition(status) == status = "Creating"

\* while processing_job_status == 'InProgress':
JobLoopCondition(status) == status = "InProgress"

\* the guard written with >= (a bug variant)
LenGuardOffByOne(sample) == Len(sample) >= 0

\* if(len(sample) > 0):
LenGuard(sample) == Len(sample) > 0

\* the text the endpoint answers with, decoded
Prediction == "prediction"

----------------------------------------------------------------------------
\* The run.

Init ==
    /\ nb \in Notebooks
    /\ pc = 1
    /\ halted = "no"
    /\ kernel_has_keys \in (IF nb = "N3" THEN BOOLEAN ELSE {FALSE})
    /\ TRAINING_KEYS \in (IF kernel_has_keys THEN LeftoverKeys ELSE { << >> })
    /\ log = << >>
    /\ created = {}
    /\ svc_endpoint = "absent"
    /\ svc_job = "absent"
    /\ model_endpoint_status = "None"
    /\ processing_job_status = "None"
    /\ polls = 0
    /\ csv = EmptyFrame
    /\ df = EmptyFrame
    /\ samples = << >>
    /\ index = 0
    /\ submitted = << >>
    /\ payloads = << >>
    /\ triples = << >>

Running == halted = "no" /\ pc <= Len(Program(nb))
Finished == halted = "no" /\ pc > Len(Program(nb))
Cur == Program(nb)[pc]

Entry(op, target, refs, ok, ms) ==
    [op |-> op, target |-> target, refs |-> refs, creates |-> {}, ok |-> ok,
     ms |-> ms, capture |-> NoCapture, reads |-> {}, http |-> 0]

\* the objects of the bucket a call reads: the baseline dataset for
\* suggest_baseline, the key it is given for get_object
ObjectsRead(ins) ==
    CASE ins.op = "suggest_baseline" -> { S3_BASELINE_DATASET_URI(nb) }
      [] ins.op = "get_object"       -> { ins.target }
      [] OTHER                       -> {}

CallEntry(ins, ok) ==
    [Entry(ins.op, ins.target, ins.refs, ok, 0) EXCEPT
        !.creates = IF ok THEN ins.creates ELSE {},
        !.capture = ins.capture,
        !.reads = ObjectsRead(ins)]
SleepEntry(ms) == Entry("sleep", NoRes, {}, TRUE, ms)

\* The cell of name constants.  In N3 it reads TRAINING_KEYS[0], a name no cell
\* of the notebook binds: the cell runs only in a kernel that still holds the
\* name, and raises NameError otherwise.
RunGlobals ==
    /\ Running /\ Cur.kind = "globals"
    /\ IF nb = "N3" /\ ~kernel_has_keys
       THEN halted' = "failed" /\ pc' = pc
       ELSE halted' = halted /\ pc' = pc + 1
    /\ UNCHANGED <<nb, kernel_has_keys, TRAINING_KEYS, log, created, svc_endpoint, svc_job,
                   model_endpoint_status, processing_job_status, polls, csv,
                   df, samples, index, submitted, payloads, triples>>

\* The status codes of the responses requests.get can return: the file, or
\* the error page of the source.  An error response is returned like any
\* other, no exception is raised for it.
HttpStatuses == {200, 404}

\* The files of DATASETS are fetched from one directory of one host
\* (TRAINING_DATASET_URI): the runs explored are those where the host answers
\* every fetch of the run alike, with the file or with the error page.
SourceAnswers ==
    LET gets == SelectSeq(log, LAMBDA e : e.op = "requests.get") IN
    IF gets = << >> THEN HttpStatuses ELSE { gets[1].http }

\* the status code of the response a call returns, 0 for a call that is no
\* HTTP fetch
StatusCodes(ins) == IF ins.op = "requests.get" THEN SourceAnswers ELSE {0}

\* An external call that returns.
CallReturns ==
    /\ Running /\ Cur.kind = "call"
    /\ \E st \in StatusCodes(Cur) :
          log' = Append(log, [CallEntry(Cur, TRUE) EXCEPT !.http = st])
    /\ created' = (created \cup Cur.creates) \ Cur.deletes
    /\ IF Cur.ep = {} THEN svc_endpoint' = svc_endpoint
       ELSE svc_endpoint' \in Cur.ep
    /\ IF Cur.job = {} THEN svc_job' = svc_job
       ELSE svc_job' \in Cur.job
    /\ pc' = pc + 1
    /\ UNCHANGED <<nb, halted, kernel_has_keys, TRAINING_KEYS, model_endpoint_status,
                   processing_job_status, polls, csv, df, samples, index,
                   submitted, payloads, triples>>

\* An external call that raises inside a try/except that goes on (a bug
\* variant).
CallRaisesSwallowed ==
    /\ Running /\ Cur.kind = "call"
    /\ log' = Append(log, CallEntry(Cur, FALSE))
    /\ pc' = pc + 1
    /\ UNCHANGED <<nb, halted, kernel_has_keys, TRAINING_KEYS, created, svc_endpoint,
                   svc_job, model_endpoint_status, processing_job_status,
                   polls, csv, df, samples, index, submitted, payloads,
                   triples>>

\* An external call that raises and is issued again (a bug variant).
CallRaisesRetried ==
    /\ Running /\ Cur.kind = "call"
    /\ log' = Append(log, CallEntry(Cur, FALSE))
    /\ UNCHANGED <<nb, pc, halted, kernel_has_keys, TRAINING_KEYS, created, svc_endpoint,
                   svc_job, model_endpoint_status, processing_job_status,
                   polls, csv, df, samples, index, submitted, payloads,
                   triples>>

\* An external call that raises: nothing catches it, the run ends.
CallRaises ==
    /\ Running /\ Cur.kind = "call"
    /\ log' = Append(log, CallEntry(Cur, FALSE))
    /\ halted' = "failed"
    /\ UNCHANGED <<nb, pc, kernel_has_keys, TRAINING_KEYS, created, svc_endpoint, svc_job,
                   model_endpoint_status, processing_job_status, polls, csv,
                   df, samples, index, submitted, payloads, triples>>

\* time.sleep between two calls of a cell
Sleep ==
    /\ Running /\ Cur.kind = "sleep"
    /\ log' = Append(log, SleepEntry(Cur.ms))
    /\ pc' = pc + 1
    /\ UNCHANGED <<nb, halted, kernel_has_keys, TRAINING_KEYS, created, svc_endpoint,
                   svc_job, model_endpoint_status, processing_job_status,
                   polls, csv, df, samples, index, submitted, payloads,
                   triples>>

\* Section 2.4, before the loop: describe_endpoint, EndpointStatus stored.
DescribeEndpoint ==
    /\ Running /\ Cur.kind = "describe_endpoint"
    /\ \/ \E s \in EndpointNext(svc_endpoint) :
            /\ log' = Append(log, Entry("describe_endpoint", EndpointRes(nb), {}, TRUE, 0))
            /\ svc_endpoint' = s
            /\ model_endpoint_status' = s
            /\ polls' = 0
            /\ pc' = pc + 1
            /\ halted' = halted
       \/ /\ log' = Append(log, Entry("describe_endpoint", EndpointRes(nb), {}, FALSE, 0))
          /\ halted' = "failed"
          /\ UNCHANGED <<svc_endpoint, model_endpoint_status, polls, pc>>
    /\ UNCHANGED <<nb, kernel_has_keys, TRAINING_KEYS, created, svc_job,
                   processing_job_status, csv, df, samples, index,
                   submitted, payloads, triples>>

\* One turn of an endpoint loop that waits longer at every turn (a bug
\* variant).
PollEndpointBackoff ==
    /\ Running /\ Cur.kind = "poll_endpoint"
    /\ EndpointLoopCondition(model_endpoint_status)
    /\ polls < MaxPolls
    /\ log' = log \o << SleepEntry(PollIntervalMs * (polls + 1)),
                        Entry("describe_endpoint", EndpointRes(nb), {}, TRUE, 0) >>
    /\ \E s \in EndpointNext(svc_endpoint) :
            /\ svc_endpoint' = s
            /\ model_endpoint_status' = s
    /\ polls' = polls + 1
    /\ UNCHANGED <<nb, pc, halted, kernel_has_keys, TRAINING_KEYS, created, svc_job,
                   processing_job_status, csv, df, samples, index,
                   submitted, payloads, triples>>

\* One turn of the endpoint loop: sleep 45 s, describe_endpoint, store, print.
PollEndpoint ==
    /\ Running /\ Cur.kind = "poll_endpoint"
    /\ EndpointLoopCondition(model_endpoint_status)
    /\ polls < MaxPolls
    /\ LET slept == Append(log, SleepEntry(PollIntervalMs)) IN
       \/ \E s \in EndpointNext(svc_endpoint) :
            /\ log' = Append(slept, Entry("describe_endpoint", EndpointRes(nb), {}, TRUE, 0))
            /\ svc_endpoint' = s
            /\ model_endpoint_status' = s
            /\ polls' = polls + 1
            /\ halted' = halted
       \/ /\ log' = Append(slept, Entry("describe_endpoint", EndpointRes(nb), {}, FALSE, 0))
          /\ halted' = "failed"
          /\ UNCHANGED <<svc_endpoint, model_endpoint_status, polls>>
    /\ UNCHANGED <<nb, pc, kernel_has_keys, TRAINING_KEYS, created, svc_job,
                   processing_job_status, csv, df, samples, index,
                   submitted, payloads, triples>>

\* An endpoint loop that gives up after MaxPolls turns (a bug variant).
LeaveEndpointPollOnTimeout ==
    /\ Running /\ Cur.kind = "poll_endpoint"
    /\ ~EndpointLoopCondition(model_endpoint_status) \/ polls >= MaxPolls
    /\ pc' = pc + 1
    /\ polls' = 0
    /\ UNCHANGED <<nb, halted, kernel_has_keys, TRAINING_KEYS, log, created, svc_endpoint,
                   svc_job, model_endpoint_status, processing_job_status,
                   csv, df, samples, index, submitted, payloads, triples>>

\* The endpoint loop's condition is false: the cell ends.
LeaveEndpointPoll ==
    /\ Running /\ Cur.kind = "poll_endpoint"
    /\ ~EndpointLoopCondition(model_endpoint_status)
    /\ pc' = pc + 1
    /\ polls' = 0
    /\ UNCHANGED <<nb, halted, kernel_has_keys, TRAINING_KEYS, log, created, svc_endpoint,
                   svc_job, model_endpoint_status, processing_job_status,
                   csv, df, samples, index, submitted, payloads, triples>>

\* Section 3.2 of N3, before the loop: describe_processing_job, status stored.
DescribeJob ==
    /\ Running /\ Cur.kind = "describe_job"
    /\ \/ \E s \in JobNext(svc_job) :
            /\ log' = Append(log, Entry("describe_processing_job", JobRes(nb), {}, TRUE, 0))
            /\ svc_job' = s
            /\ processing_job_status' = s
            /\ polls' = 0
            /\ pc' = pc + 1
            /\ halted' = halted
       \/ /\ log' = Append(log, Entry("describe_processing_job", JobRes(nb), {}, FALSE, 0))
          /\ halted' = "failed"
          /\ UNCHANGED <<svc_job, processing_job_status, polls, pc>>
    /\ UNCHANGED <<nb, kernel_has_keys, TRAINING_KEYS, created, svc_endpoint,
                   model_endpoint_status, csv, df, samples, index,
                   submitted, payloads, triples>>

\* One turn of the job loop: sleep 45 s, describe_processing_job, store, print.
PollJob ==
    /\ Running /\ Cur.kind = "poll_job"
    /\ JobLoopCondition(processing_job_status)
    /\ polls < MaxPolls
    /\ LET slept == Append(log, SleepEntry(PollIntervalMs)) IN
       \/ \E s \in JobNext(svc_job) :
            /\ log' = Append(slept, Entry("describe_processing_job", JobRes(nb), {}, TRUE, 0))
            /\ svc_job' = s
            /\ processing_job_status' = s
            /\ polls' = polls + 1
            /\ halted' = halted
       \/ /\ log' = Append(slept, Entry("describe_processing_job", JobRes(nb), {}, FALSE, 0))
          /\ halted' = "failed"
          /\ UNCHANGED <<svc_job, processing_job_status, polls>>
    /\ UNCHANGED <<nb, pc, kernel_has_keys, TRAINING_KEYS, created, svc_endpoint,
                   model_endpoint_status, csv, df, samples, index,
                   submitted, payloads, triples>>

\* The job loop's condition is false: the cell ends.
LeaveJobPoll ==
    /\ Running /\ Cur.kind = "poll_job"
    /\ ~JobLoopCondition(processing_job_status)
    /\ pc' = pc + 1
    /\ polls' = 0
    /\ UNCHANGED <<nb, halted, kernel_has_keys, TRAINING_KEYS, log, created, svc_endpoint,
                   svc_job, model_endpoint_status, processing_job_status,
                   csv, df, samples, index, submitted, payloads, triples>>

\* the body of the error response, which put_object has stored under the
\* key of the file: one line, no delimiter
ErrorPage ==
    [columns |-> SubSeq(ColNames, 1, 1), nrows |-> 1,
     data |-> << << "404: Not Found" >> >>]

\* the fetch of `file_name` by the upload loop was answered with an error
FetchFailed(file_name) ==
    \E i \in 1..Len(log) :
        /\ log[i].op = "requests.get" /\ log[i].target = Res("url", file_name)
        /\ log[i].http # 200

\* what the object read by the replay cell holds: the drift dataset, or the
\* error page when that is what the upload loop stored
StoredTables(style) ==
    IF nb \in {"N2", "N3"} /\ FetchFailed(DATASETS(nb)[2])
    THEN { ErrorPage } ELSE LoadedTables(style)

\* The statements that build `samples` for the loop that follows.
LoadSamples ==
    /\ Running /\ Cur.kind = "load"
    /\ csv' \in StoredTables(Cur.style)
    /\ df' \in LoadedFrames(Cur.style, csv')
    /\ samples' \in LoadedSamples(Cur.style, df')
    /\ index' = 0
    /\ pc' = pc + 1
    /\ UNCHANGED <<nb, halted, kernel_has_keys, TRAINING_KEYS, log, created, svc_endpoint,
                   svc_job, model_endpoint_status, processing_job_status,
                   polls, submitted, payloads, triples>>

\* a replay loop without its delay (a bug variant)
SleepsNever(style, sample) == FALSE

\* Whether one turn of a replay loop sleeps: inside predict() of N2 and N3 and
\* inside the guard of IRIS only for a row that was sent; in the loop body of
\* N1 for every row.
Sleeps(style, sample) == IF style = "n1" THEN TRUE ELSE LenGuard(sample)

\* Whether one turn of a replay loop prints its line: IRIS prints inside the
\* guard; N1, N2 and N3 print in the loop body, after predict() has returned.
Prints(style, sample) ==
    IF style \in {"guarded", "joined"} THEN LenGuard(sample) ELSE TRUE

\* What the printed line shows as the prediction: predict() returns None when
\* its guard is false.
Response(sample) == IF LenGuard(sample) THEN Prediction ELSE "None"

\* CSVSerializer().serialize(sample): a string goes out as it is, a list as
\* one line of its values' texts
CSVSerializer(style, sample) ==
    IF style = "joined" THEN sample
    ELSE Join([k \in 1..Len(sample) |-> sample[k].repr])

InvokeEntry(ok) == Entry("invoke_endpoint", EndpointRes(nb), {}, ok, 0)

\* One turn of a replay loop whose call is wrapped in a try/except that prints
\* the row and goes on to the next (a bug variant).
ReplayStepSwallowed ==
    /\ Running /\ Cur.kind = "replay"
    /\ LET slice == PySlice(samples, Cur.lo, Cur.hi) IN
       /\ index < Len(slice)
       /\ LET sample == slice[index + 1] IN
          \E ok \in (IF LenGuard(sample) THEN BOOLEAN ELSE {TRUE}) :
             /\ submitted' = IF LenGuard(sample) THEN Append(submitted, sample)
                                ELSE submitted
             /\ payloads' = IF LenGuard(sample)
                            THEN Append(payloads, CSVSerializer(Cur.style, sample))
                            ELSE payloads
             /\ log' = log
                        \o (IF LenGuard(sample) THEN << InvokeEntry(ok) >> ELSE << >>)
                        \o (IF Sleeps(Cur.style, sample)
                            THEN << SleepEntry(PredictDelayMs) >> ELSE << >>)
             /\ triples' = Append(triples, [index |-> index, input |-> sample,
                                           prediction |-> IF ok THEN Response(sample)
                                                          ELSE "None"])
             /\ index' = index + 1
             /\ halted' = halted
    /\ UNCHANGED <<nb, pc, kernel_has_keys, TRAINING_KEYS, created, svc_endpoint, svc_job,
                   model_endpoint_status, processing_job_status, polls, csv,
                   df, samples>>

\* One turn of a replay loop.
ReplayStep ==
    /\ Running /\ Cur.kind = "replay"
    /\ LET slice == PySlice(samples, Cur.lo, Cur.hi) IN
       /\ index < Len(slice)
       /\ LET sample == slice[index + 1] IN
          \/ /\ submitted' = IF LenGuard(sample) THEN Append(submitted, sample)
                             ELSE submitted
             /\ payloads' = IF LenGuard(sample)
                            THEN Append(payloads, CSVSerializer(Cur.style, sample))
                            ELSE payloads
             /\ log' = log
                        \o (IF LenGuard(sample) THEN << InvokeEntry(TRUE) >> ELSE << >>)
                        \o (IF Sleeps(Cur.style, sample)
                            THEN << SleepEntry(PredictDelayMs) >> ELSE << >>)
             /\ triples' = IF Prints(Cur.style, sample)
                           THEN Append(triples, [index |-> index, input |-> sample,
                                                 prediction |-> Response(sample)])
                           ELSE triples
             /\ index' = index + 1
             /\ halted' = halted
          \/ /\ LenGuard(sample)
             /\ submitted' = Append(submitted, sample)
             /\ payloads' = Append(payloads, CSVSerializer(Cur.style, sample))
             /\ log' = Append(log, InvokeEntry(FALSE))
             /\ halted' = "failed"
             /\ UNCHANGED <<triples, index>>
    /\ UNCHANGED <<nb, pc, kernel_has_keys, TRAINING_KEYS, created, svc_endpoint, svc_job,
                   model_endpoint_status, processing_job_status, polls, csv,
                   df, samples>>

\* The replay loop has visited its whole slice.
LeaveReplay ==
    /\ Running /\ Cur.kind = "replay"
    /\ index >= Len(PySlice(samples, Cur.lo, Cur.hi))
    /\ pc' = pc + 1
    /\ index' = 0
    /\ UNCHANGED <<nb, halted, kernel_has_keys, TRAINING_KEYS, log, created, svc_endpoint,
                   svc_job, model_endpoint_status, processing_job_status,
                   polls, csv, df, samples, submitted, payloads, triples>>

Next ==
    \/ RunGlobals
    \/ CallReturns
    \/ CallRaises
    \/ Sleep
    \/ DescribeEndpoint
    \/ PollEndpoint
    \/ LeaveEndpointPoll
    \/ DescribeJob
    \/ PollJob
    \/ LeaveJobPoll
    \/ LoadSamples
    \/ ReplayStep
    \/ LeaveReplay

Spec == Init /\ [][Next]_vars

----------------------------------------------------------------------------
\* The run with its poll loops unbounded.  The loops have no iteration bound:
\* past the MaxPolls turns that are recorded in the log, a loop goes on
\* sleeping and querying for as long as the status it fetches is the
\* in-progress value.  Those further turns leave the log as it is; `polls`
\* then only tells an odd turn from an even one.

\* the turn counter past the recorded turns
NextTurn(n) == IF n = MaxPolls THEN MaxPolls + 1 ELSE MaxPolls

PollEndpointOn ==
    /\ Running /\ Cur.kind = "poll_endpoint"
    /\ EndpointLoopCondition(model_endpoint_status)
    /\ polls >= MaxPolls
    /\ \/ \E s \in EndpointNext(svc_endpoint) :
            /\ svc_endpoint' = s
            /\ model_endpoint_status' = s
            /\ polls' = NextTurn(polls)
            /\ UNCHANGED <<log, halted>>
       \/ /\ log' = Append(log, Entry("describe_endpoint", EndpointRes(nb), {}, FALSE, 0))
          /\ halted' = "failed"
          /\ UNCHANGED <<svc_endpoint, model_endpoint_status, polls>>
    /\ UNCHANGED <<nb, pc, kernel_has_keys, TRAINING_KEYS, created, svc_job,
                   processing_job_status, csv, df, samples, index,
                   submitted, payloads, triples>>

PollJobOn ==
    /\ Running /\ Cur.kind = "poll_job"
    /\ JobLoopCondition(processing_job_status)
    /\ polls >= MaxPolls
    /\ \/ \E s \in JobNext(svc_job) :
            /\ svc_job' = s
            /\ processing_job_status' = s
            /\ polls' = NextTurn(polls)
            /\ UNCHANGED <<log, halted>>
       \/ /\ log' = Append(log, Entry("describe_processing_job", JobRes(nb), {}, FALSE, 0))
          /\ halted' = "failed"
          /\ UNCHANGED <<svc_job, processing_job_status, polls>>
    /\ UNCHANGED <<nb, pc, kernel_has_keys, TRAINING_KEYS, created, svc_endpoint,
                   model_endpoint_status, csv, df, samples, index,
                   submitted, payloads, triples>>

NextLive ==
    \/ Next
    \/ PollEndpointOn
    \/ PollJobOn

\* the service ends up reporting a status other than the in-progress value
EndpointSettles ==
    (PollEndpoint \/ PollEndpointOn) /\ model_endpoint_status' # "Creating"
JobSettles ==
    (PollJob \/ PollJobOn) /\ processing_job_status' # "InProgress"

\* The kernel runs the statement that comes next, and the service settles.
LiveSpec ==
    /\ Init /\ [][NextLive]_vars
    /\ WF_vars(NextLive)
    /\ WF_vars(EndpointSettles)
    /\ WF_vars(JobSettles)

\* The same run without the assumption on the service.
LiveSpecNoAssumption ==
    Init /\ [][NextLive]_vars /\ WF_vars(NextLive)

----------------------------------------------------------------------------
\* Vocabulary of the properties.

\* the first position of an instruction of `kind` in notebook n, 0 if none
Kinds == {"globals", "call", "sleep", "describe_endpoint", "poll_endpoint",
          "describe_job", "poll_job", "load", "replay"}
Positions ==
    [n \in Notebooks |-> [kind \in Kinds |->
        LET hits == { i \in 1..Len(Program(n)) : Program(n)[i].kind = kind } IN
        IF hits = {} THEN 0 ELSE MinOf(hits)]]
Pos(n, kind) == Positions[n][kind]

\* the run has left the (first) instruction of `kind`
Past(kind) == Pos(nb, kind) > 0 /\ pc > Pos(nb, kind)

\* the entries of the log with an operation among `ops`
Issued(ops) == SelectSeq(log, LAMBDA e : e.op \in ops)
OpsOf(entries) == [i \in 1..Len(entries) |-> entries[i].op]

IsPrefix(s, t) == Len(s) <= Len(t) /\ \A i \in 1..Len(s) : s[i] = t[i]

StopDeleteOps ==
    {"stop_monitoring_schedule", "delete_monitoring_schedule",
     "delete_endpoint", "delete_endpoint_config", "delete_model"}

CreateOps ==
    {"create_model", "create_endpoint_config", "create_endpoint",
     "create_monitoring_schedule", "suggest_baseline", "deploy",
     "put_object", "upload_fileobj"}

ControlPlaneKinds ==
    {"model", "endpoint-config", "endpoint", "processing-job",
     "monitoring-schedule"}

\* the resources whose create call had returned before log entry i was issued
CreatedBefore(i) == UNION { log[j].creates : j \in 1..(i - 1) }

\* row k of the frame read last, field by field
DatasetRow(k) == [j \in 1..Len(df.columns) |-> df.data[j][k]]

\* what a cell holds, whatever its type: a number (3 and 3.0 are the same
\* number) or a text
ValueOf(c) ==
    IF c.dtype = "str" THEN << "text", c.repr >>
    ELSE << "number", FloatRepr(c.repr) >>
RowValues(row) == [j \in 1..Len(row) |-> ValueOf(row[j])]

----------------------------------------------------------------------------
\* C1.  Once a poll loop has been left, the status fetched last is not the
\* in-progress value: 'Creating' for the endpoint loop, 'InProgress' for the
\* baseline-job loop.  No later instruction runs on an in-progress status.
C1_PollerLeavesOnlyWhenNotInProgress ==
    /\ Past("poll_endpoint") => model_endpoint_status # "Creating"
    /\ Past("poll_job") => processing_job_status # "InProgress"

\* both loops of N3 have turned at least once and have been left
C1_Witness ==
    /\ nb = "N3" /\ Past("poll_job")
    /\ Len(Issued({"describe_endpoint"})) >= 2
    /\ Len(Issued({"describe_processing_job"})) >= 2

\* C2.  The stop/delete calls of a run are, in order, a prefix of
\* stop-monitoring-schedule, delete-monitoring-schedule, delete-endpoint,
\* delete-endpoint-config, delete-model; no create call follows the first of
\* them; and a run of N1 or N2 that reaches its end has issued all five, each
\* once, each successfully.
TeardownOrder ==
    << "stop_monitoring_schedule", "delete_monitoring_schedule",
       "delete_endpoint", "delete_endpoint_config", "delete_model" >>

C2_TeardownIssuesFiveInOrder ==
    /\ IsPrefix(OpsOf(Issued(StopDeleteOps)), TeardownOrder)
    /\ \A j \in 1..Len(log) :
          log[j].op \in CreateOps =>
              \A i \in 1..(j - 1) : log[i].op \notin StopDeleteOps
    /\ (Finished /\ nb \in {"N1", "N2"}) =>
          /\ OpsOf(Issued(StopDeleteOps)) = TeardownOrder
          /\ \A i \in 1..Len(log) : log[i].ok

\* a run of N2 that went through its whole cleanup
C2_Witness == Finished /\ nb = "N2" /\ Len(Issued(StopDeleteOps)) = 5

\* C3.  In the drift replay of N2 and N3, over a frame whose rows are not
\* empty: while the loop runs, the lines printed so far are one per row
\* visited, in the order of the frame, each carrying its row; when the loop
\* has been left without a failed call there is exactly one line per row.
\* A row is carried by its values: df.values of N3 may have widened an integer
\* to the float of the same value.
C3_OneTriplePerRowInOrder ==
    (nb \in {"N2", "N3"} /\ Len(df.columns) > 0 /\ Pos(nb, "replay") > 0
        /\ pc >= Pos(nb, "replay")) =>
        /\ Len(triples) <= df.nrows
        /\ \A k \in 1..Len(triples) :
              RowValues(triples[k].input) = RowValues(DatasetRow(k))
        /\ (halted = "no" /\ pc = Pos(nb, "replay")) => Len(triples) = index
        /\ (halted = "no" /\ pc > Pos(nb, "replay")) => Len(triples) = df.nrows

\* N2 has replayed a frame of two different rows to the end
C3_Witness ==
    /\ nb = "N2" /\ halted = "no" /\ Past("replay")
    /\ Len(df.columns) > 0 /\ df.nrows >= 2
    /\ DatasetRow(1) # DatasetRow(2)
    /\ Len(triples) = df.nrows

\* C4.  No payload handed to predictor.predict has length zero.
C4_NoZeroLengthRowSubmitted ==
    \A i \in 1..Len(submitted) : Len(submitted[i]) > 0

\* a replay loop has gone past a row of length zero
C4_Witness ==
    /\ Running /\ Cur.kind = "replay" /\ index >= 1
    /\ Len(PySlice(samples, Cur.lo, Cur.hi)[1]) = 0

EndpointTerminal == {"InService", "Failed"}
JobTerminal == {"Completed", "Failed", "Stopped"}

C6_PollerLeavesWithTerminalStatus ==
    /\ Past("poll_endpoint") => model_endpoint_status \in EndpointTerminal
    /\ Past("poll_job") => processing_job_status \in JobTerminal

\* C7.  In N2 and N3 the successful create calls of provisioning come in the
\* order model, endpoint configuration, endpoint; and every call on the
\* control plane names, as its target (unless it creates it) and as its
\* references, only resources whose create call had already returned.
ProvisionOrder == << "create_model", "create_endpoint_config", "create_endpoint" >>

C7_NamesExistBeforeUse ==
    nb \in {"N2", "N3"} =>
        /\ IsPrefix(OpsOf(Issued({"create_model", "create_endpoint_config",
                                  "create_endpoint"})), ProvisionOrder)
        /\ \A i \in 1..Len(log) :
              /\ log[i].refs \subseteq CreatedBefore(i)
              /\ (log[i].target[1] \in ControlPlaneKinds /\ log[i].op \notin CreateOps)
                    => log[i].target \in CreatedBefore(i)

\* N2 ran to its end: every create, the schedule and every delete were issued
C7_Witness ==
    /\ Finished /\ nb = "N2"
    /\ Len(Issued({"create_monitoring_schedule"})) = 1
    /\ Len(Issued({"delete_model"})) = 1

\* C8.  In N3, when create_monitoring_schedule is issued the status observed
\* last for the baseline job is 'Completed'.
C8_ScheduleOnlyAfterCompleted ==
    (nb = "N3" /\ Len(Issued({"create_monitoring_schedule"})) > 0) =>
        processing_job_status = "Completed"

\* C9.  In N2 and N3, once the endpoint loop has been left the status observed
\* last for the endpoint is 'InService'.
C9_PastEndpointLoopInService ==
    (nb \in {"N2", "N3"} /\ Past("poll_endpoint")) =>
        model_endpoint_status = "InService"

\* C10.  When create_endpoint_config or create_endpoint fails after
\* create_model has succeeded, the run has ended, the failed call is the last
\* call issued, no stop or delete call was issued, and the model still exists.
C10_NoCompensationAfterFailedCreate ==
    \A i \in 1..Len(log) :
        (log[i].op \in {"create_endpoint_config", "create_endpoint"} /\ ~log[i].ok) =>
            /\ halted = "failed"
            /\ i = Len(log)
            /\ Issued(StopDeleteOps) = << >>
            /\ ModelRes(nb) \in created

\* create_endpoint has failed after the model and the configuration were made
C10_Witness ==
    /\ Len(log) > 0
    /\ log[Len(log)].op = "create_endpoint" /\ ~log[Len(log)].ok
    /\ {ModelRes(nb), ConfigRes(nb)} \subseteq created

\* the resources some successful call of the run has created so far
EverCreated == UNION { log[j].creates : j \in 1..Len(log) }

\* the resources the instructions from the current one on would delete
StillToDelete ==
    UNION { Program(nb)[k].deletes : k \in pc..Len(Program(nb)) }

\* C11.  A call that has failed is the last entry of the log and the run has
\* ended: the call is not issued again, and no call or sleep follows it.  When
\* the failed call is a stop or delete of the teardown, every resource that
\* it and the remaining teardown steps were to delete still exists.
C11_FailureIsFatalAndNotRetried ==
    \A i \in 1..Len(log) :
        ~log[i].ok =>
            /\ i = Len(log)
            /\ halted = "failed"
            /\ log[i].op \in StopDeleteOps =>
                  (StillToDelete \cap EverCreated) \subseteq created

\* delete_endpoint of N2 has failed, after the schedule was stopped and deleted
C11_Witness ==
    /\ nb = "N2" /\ Len(log) > 0
    /\ log[Len(log)].op = "delete_endpoint" /\ ~log[Len(log)].ok
    /\ {EndpointRes(nb), ConfigRes(nb), ModelRes(nb)} \subseteq created
    /\ ScheduleRes(nb) \notin created

\* the lines a replay of `style` prints for the first n rows of `slice` when
\* every invocation succeeds
ExpectedTriples(style, slice, n) ==
    LET F[k \in 0..n] ==
            IF k = 0 THEN << >>
            ELSE IF Prints(style, slice[k])
                 THEN Append(F[k - 1], [index |-> k - 1, input |-> slice[k],
                                        prediction |-> Response(slice[k])])
                 ELSE F[k - 1]
    IN F[n]

\* an invocation of the first replay loop has failed
InvokeFailed ==
    /\ \E i \in 1..Len(log) : log[i].op = "invoke_endpoint" /\ ~log[i].ok
    /\ pc = Pos(nb, "replay")

\* C12.  When the invocation for row i of a replay fails, the run has ended;
\* the failed row is the last payload submitted, so no later row is; no line
\* is printed for row i; and the lines printed are exactly the lines a replay
\* without failure prints for the rows before i.
C12_ReplayAbortsOnFailedInvocation ==
    InvokeFailed =>
        LET slice == PySlice(samples, Cur.lo, Cur.hi) IN
        /\ halted = "failed"
        /\ index < Len(slice)
        /\ Len(submitted) > 0 /\ submitted[Len(submitted)] = slice[index + 1]
        /\ Len(submitted) =
              Cardinality({ k \in 1..(index + 1) : LenGuard(slice[k]) })
        /\ \A k \in 1..Len(triples) : triples[k].index < index
        /\ triples = ExpectedTriples(Cur.style, slice, index)

\* N2: the first row was answered, the invocation for the second failed
C12_Witness ==
    /\ nb = "N2" /\ InvokeFailed
    /\ index = 1 /\ Len(triples) = 1 /\ Len(submitted) = 2

\* a value of a sample is the field of the file it was read from: the same
\* text, or the number the text reads as; a missing field is still missing
Unmodified(c, text) ==
    \/ c.dtype = "str" /\ c.repr = text
    \/ c.dtype # "str" /\ text # Missing /\ FloatRepr(c.repr) = FloatRepr(text)

\* In the notebooks `ns`, for a file with at least one column: the k-th sample
\* submitted has the fields of the k-th row of the file, as many, in the same
\* order, each unmodified; unzipping the per-column lists gives the rows of the
\* frame; and once the first loop has run through, the first ten rows (or all
\* of them, if fewer) have been submitted.
RowsReachEndpointUnmodified(ns) ==
    (nb \in ns /\ Len(csv.columns) > 0) =>
        /\ Len(submitted) <= csv.nrows
        /\ \A k \in 1..Len(submitted) :
              /\ Len(submitted[k]) = Len(csv.columns)
              /\ \A j \in 1..Len(csv.columns) :
                    Unmodified(submitted[k][j], csv.data[j][k])
        /\ (nb \in {"N1", "N2"} /\ Past("load")) =>
              samples = [k \in 1..df.nrows |-> DatasetRow(k)]
        /\ (halted = "no" /\ Past("replay")) =>
              \A k \in 1..csv.nrows : k <= SliceA => k <= Len(submitted)

\* C13.  Every row of the drift dataset reaches the endpoint unmodified, in
\* each notebook that replays the dataset; the rows include rows with a
\* missing field.
C13_DriftRowsReachEndpointUnmodified ==
    RowsReachEndpointUnmodified({"N1", "N2", "N3"})

\* the texts of the fields the serializer is given in the current turn of a
\* replay loop: the values of the sample, or, in the drift replay of IRIS
\* where the sample is already a string, the values of the row it was joined
\* from
FieldTexts ==
    IF Cur.style = "joined"
    THEN [j \in 1..Len(df.columns) |-> df.data[j][index + 1].repr]
    ELSE LET sample == PySlice(samples, Cur.lo, Cur.hi)[index + 1] IN
         [j \in 1..Len(sample) |-> sample[j].repr]

\* p is the texts `fields` in order with one "," between neighbours and none
\* before the first or after the last
IsCommaJoined(p, fields) ==
    /\ Len(fields) >= 1
    /\ Len(p) = 2 * Len(fields) - 1
    /\ \A j \in 1..Len(fields) : p[2 * j - 1] = fields[j] /\ fields[j] # ","
    /\ \A j \in 1..(Len(fields) - 1) : p[2 * j] = ","

\* C14.  Every request body is the textual forms of the row's n >= 1 fields in
\* field order joined by single commas: n - 1 commas, none leading, none
\* trailing.
C14_PayloadIsCommaJoinedRow ==
    [][payloads' # payloads =>
          /\ Len(payloads') = Len(payloads) + 1
          /\ IsCommaJoined(payloads'[Len(payloads')], FieldTexts)]_vars

\* IRIS has sent a generated drift row of four fields
C14_Witness ==
    /\ nb = "IRIS" /\ Len(payloads) > 0
    /\ payloads[Len(payloads)] = << "2", ",", "4", ",", "1", ",", "-3" >>

\* In the notebooks `ns`: between a stop or delete call and the one issued next
\* there is a sleep of 30 s.
WaitsBetweenTeardownSteps(ns) ==
    nb \in ns =>
        \A i \in 1..Len(log) : \A j \in (i + 1)..Len(log) :
            (log[i].op \in StopDeleteOps /\ log[j].op \in StopDeleteOps) =>
                \E k \in (i + 1)..(j - 1) :
                    log[k].op = "sleep" /\ log[k].ms = SettleMs

\* C15.  In every teardown of the repository, no two stop or delete calls are
\* issued one after the other without a 30 s wait between them.
C15_TeardownWaitsBetweenSteps == WaitsBetweenTeardownSteps(Notebooks)

\* the positions of the status queries `op` in the log
Queries(op) == { i \in 1..Len(log) : log[i].op = op }

\* The first query `op` does not follow a sleep; every later one follows
\* exactly one sleep of 45 s, which follows the query before it.
Cadence(op) ==
    \A i \in Queries(op) :
        IF i = MinOf(Queries(op))
        THEN i = 1 \/ log[i - 1].op # "sleep"
        ELSE /\ i >= 3
             /\ log[i - 1].op = "sleep" /\ log[i - 1].ms = PollIntervalMs
             /\ log[i - 2].op = op

\* the sleeps of 45 s issued so far
PollWaits == Len(SelectSeq(log, LAMBDA e : e.op = "sleep" /\ e.ms = PollIntervalMs))

\* the status queries of both pollers bar the first of each
LaterQueries ==
    LET n(op) == Cardinality(Queries(op)) IN
    (IF n("describe_endpoint") > 0 THEN n("describe_endpoint") - 1 ELSE 0)
    + (IF n("describe_processing_job") > 0
       THEN n("describe_processing_job") - 1 ELSE 0)

\* a poll loop stands at its test with a status that is not the in-progress
\* value
PollerDone ==
    /\ Running
    /\ \/ Cur.kind = "poll_endpoint" /\ model_endpoint_status # "Creating"
       \/ Cur.kind = "poll_job" /\ processing_job_status # "InProgress"

\* C16.  Each poller issues its first status query without a wait before it
\* and every later query after exactly one wait of 45 s, so that queries =
\* waits + 1 for each poller; and a poller that observes a status other than
\* the in-progress value issues no wait and no query after it.
C16_PollCadence ==
    /\ [](/\ Cadence("describe_endpoint")
          /\ Cadence("describe_processing_job")
          /\ PollWaits = LaterQueries)
    /\ [][PollerDone => log' = log]_vars

\* N3 past both loops: the endpoint was queried three times, with two waits,
\* the job once, with none
C16_Witness ==
    /\ nb = "N3" /\ Past("poll_job")
    /\ Cardinality(Queries("describe_endpoint")) = 3
    /\ Cardinality(Queries("describe_processing_job")) = 1
    /\ PollWaits = 2

\* a poll loop is running
AtEndpointPoll == Running /\ Cur.kind = "poll_endpoint"
AtJobPoll == Running /\ Cur.kind = "poll_job"

\* C17.  When the service ends up reporting a status other than the
\* in-progress value, a poll loop that is entered is left (or ended by an
\* exception of describe_*).  And there is no other way out: a step after
\* which the status held is still the in-progress value leaves the run inside
\* the loop, however many turns it has made, so that with a status that stays
\* in progress no later statement is ever run.
C17_PollerTerminatesOnlyOnStatus ==
    /\ AtEndpointPoll ~> ~AtEndpointPoll
    /\ AtJobPoll ~> ~AtJobPoll
    /\ [][(AtEndpointPoll /\ halted' = "no" /\ model_endpoint_status' = "Creating")
             => pc' = pc]_vars
    /\ [][(AtJobPoll /\ halted' = "no" /\ processing_job_status' = "InProgress")
             => pc' = pc]_vars

\* the endpoint loop of N2 still sees 'Creating' after more than MaxPolls turns
C17_Witness ==
    /\ nb = "N2" /\ AtEndpointPoll
    /\ polls > MaxPolls /\ model_endpoint_status = "Creating"

\* The phase of the workflow an external call belongs to: 1 dataset upload,
\* 2 provisioning, 3 endpoint status polling, 4 baseline job, 5 monitoring
\* schedule registration, 6 inference replay (and, in N1, the look at the
\* executions that follows it), 7 teardown.
PhaseOf(op) ==
    CASE op \in {"requests.get", "put_object", "upload_fileobj"} -> 1
      [] op \in {"deploy", "create_model", "create_endpoint_config",
                 "create_endpoint"} -> 2
      [] op = "describe_endpoint" -> 3
      [] op \in {"suggest_baseline", "job.wait", "describe_processing_job"} -> 4
      [] op \in {"baseline_statistics", "suggested_constraints",
                 "create_monitoring_schedule", "describe_schedule"} -> 5
      [] op \in {"get_object", "invoke_endpoint", "list_monitoring_executions"} -> 6
      [] OTHER -> 7

\* the external calls of the run, in issue order
Calls == SelectSeq(log, LAMBDA e : e.op # "sleep")

\* C18.  The run is one sequence of statements: a step runs the statement the
\* run stands at and then stands at the same statement or the next, its calls
\* are added at the end of the log, and only a call that returned is followed
\* by another.  The phases come in the order upload, provisioning, endpoint
\* polling, baseline job, schedule registration, replay, teardown: the phase
\* never goes down from one call to the next, so no call of a phase is issued
\* after a call of a later phase.
C18_StrictlySequentialPhases ==
    /\ [](/\ LET calls == Calls IN
             \A i \in 1..(Len(calls) - 1) :
                PhaseOf(calls[i].op) <= PhaseOf(calls[i + 1].op)
          /\ \A i \in 1..(Len(log) - 1) : log[i].ok)
    /\ [][pc' \in {pc, pc + 1} /\ IsPrefix(log, log')]_vars

\* N2 ran to its end, through every one of the seven phases
C18_Witness ==
    /\ Finished /\ nb = "N2"
    /\ LET calls == Calls IN
       { PhaseOf(calls[i].op) : i \in 1..Len(calls) } = 1..7

\* C19.  An invocation that has returned is followed at once by a delay of
\* 0.5 s, before anything else is issued; hence between any two invocations
\* of a replay there is a delay, after the response of the first and before
\* the request of the second.
C19_DelayAfterEveryInvocation ==
    /\ \A i \in 1..Len(log) :
          (log[i].op = "invoke_endpoint" /\ log[i].ok) =>
              /\ i < Len(log)
              /\ log[i + 1].op = "sleep" /\ log[i + 1].ms = PredictDelayMs
    /\ \A i \in 1..(Len(log) - 1) :
          log[i].op = "invoke_endpoint" => log[i + 1].op # "invoke_endpoint"

\* two rows in a row were sent, with the delay between them
C19_Witness ==
    \E i \in 1..(Len(log) - 2) :
        /\ log[i].op = "invoke_endpoint"
        /\ log[i + 1].op = "sleep" /\ log[i + 1].ms = PredictDelayMs
        /\ log[i + 2].op = "invoke_endpoint"

\* the calls so far that created an endpoint configuration
ConfigCreations ==
    { i \in 1..Len(log) : \E r \in log[i].creates : r[1] = "endpoint-config" }

\* the request asks for the capture of requests and responses, of CSV
\* content, into the data-capture location of notebook n
CapturesAll(params, n) ==
    /\ params.EnableCapture
    /\ {"Input", "Output"} \subseteq params.CaptureOptions
    /\ "text/csv" \in params.CsvContentTypes
    /\ params.DestinationS3Uri = S3_DATA_CAPTURE_URI(n)

\* C20.  Every call that creates an endpoint configuration carries a data
\* capture configuration that is enabled, captures 'Input' and 'Output',
\* registers 'text/csv' and points to the data-capture location; and every
\* endpoint is created from such a configuration: by the same call (deploy of
\* N1) or by naming a configuration an earlier call of the run created.
C20_EndpointAlwaysCapturesData ==
    /\ \A i \in ConfigCreations : CapturesAll(log[i].capture, nb)
    /\ \A i \in 1..Len(log) :
          (\E r \in log[i].creates : r[1] = "endpoint") =>
              \/ i \in ConfigCreations
              \/ /\ \E r \in log[i].refs : r[1] = "endpoint-config"
                 /\ \A r \in log[i].refs :
                       r[1] = "endpoint-config" =>
                          \E j \in ConfigCreations : j < i /\ r \in log[j].creates

\* the endpoint of N3 was created from the configuration made before it
C20_Witness ==
    /\ nb = "N3" /\ EndpointRes(nb) \in created
    /\ \E j \in ConfigCreations : log[j].capture.EnableCapture

\* the feature fields of row k of the frame read last: its fields bar the one
\* of the 'class' column, in the order of the frame
FeatureRow(k) ==
    LET keep == SelectSeq([j \in 1..Len(df.columns) |-> j],
                          LAMBDA j : df.columns[j] # "class")
    IN [i \in 1..Len(keep) |-> df.data[keep[i]][k]]

\* the baseline replay of IRIS is running or has just ended
InBaselineReplay == nb = "IRIS" /\ pc = Pos("IRIS", "replay")

C22_HeaderRemovalKeepsEveryDataRow ==
    InBaselineReplay =>
        /\ Len(samples) = df.nrows
        /\ \A k \in 1..df.nrows :
              \E i \in 1..Len(samples) : samples[i] = FeatureRow(k)

\* the kinds of resource the teardown is to remove
TeardownKinds == {"model", "endpoint-config", "endpoint", "monitoring-schedule"}

\* In the notebooks `ns`: a stop or delete call names a resource that a call
\* of the run had created before; no resource is deleted twice; and when the
\* run has reached its end the resources deleted are exactly the models,
\* endpoint configurations, endpoints and schedules the run created, none of
\* which is left.
TeardownUndoesProvisioning(ns) ==
    nb \in ns =>
        LET made == { r \in EverCreated : r[1] \in TeardownKinds }
            dels == SelectSeq(log, LAMBDA e : e.op \in StopDeleteOps
                                              /\ e.op # "stop_monitoring_schedule")
        IN /\ \A i \in 1..Len(log) :
                 log[i].op \in StopDeleteOps => log[i].target \in CreatedBefore(i)
           /\ \A i \in 1..Len(dels) : \A j \in 1..Len(dels) :
                 dels[i].target = dels[j].target => i = j
           /\ Finished =>
                 /\ { dels[i].target : i \in 1..Len(dels) } = made
                 /\ created \cap made = {}

\* C23.  In N1 and in N2 the teardown undoes exactly what provisioning did.
C23_TeardownUndoesProvisioning == TeardownUndoesProvisioning({"N1", "N2"})

\* In the notebooks `ns`: every object a call reads from the bucket is one an
\* upload of the run had written before.
ReadsWhatWasUploaded(ns) ==
    nb \in ns =>
        \A i \in 1..Len(log) : log[i].reads \subseteq CreatedBefore(i)

\* C24.  In every notebook, the baseline dataset given to the baseline job
\* and the drift dataset downloaded for the replay are objects the dataset
\* upload of the same run has written.
C24_ReadLocationsWereUploaded == ReadsWhatWasUploaded(Notebooks)

\* C25.  In the upload loops of N2 and N3: an object is written only right
\* after a fetch that was answered with the file; a fetch answered with an
\* error is the last call of the run; and a fetch answered with the file is
\* followed by one put_object under '<PREFIX>/train/<file_name>', no key
\* being written twice.
C25_OnlyFetchedDatasetsAreUploaded ==
    nb \in {"N2", "N3"} =>
        /\ \A i \in 1..Len(log) :
              log[i].op = "put_object" =>
                  /\ i > 1 /\ log[i - 1].op = "requests.get"
                  /\ log[i - 1].http = 200
                  /\ log[i].target = ObjectRes(nb, log[i - 1].target[2])
        /\ \A i \in 1..Len(log) :
              (log[i].op = "requests.get" /\ log[i].http # 200) => i = Len(log)
        /\ \A i \in 1..Len(log) : \A j \in 1..Len(log) :
              (log[i].op = "put_object" /\ log[j].op = "put_object"
                  /\ log[i].target = log[j].target) => i = j

\* the printed line t shows the row of the frame read last that stands at
\* position t.index, counted from zero
ShowsRowAtIndex(t) ==
    /\ t.index + 1 <= df.nrows
    /\ IF nb = "IRIS" THEN t.input = FeatureRow(t.index + 1)
       ELSE RowValues(t.input) = RowValues(DatasetRow(t.index + 1))

\* the lines printed by the drift replay of IRIS, which is running: the last
\* `index` lines
DriftLines == SubSeq(triples, Len(triples) - index + 1, Len(triples))

\* In the notebooks `ns`, while a dataset is replayed (in one loop or in
\* several slices) and after it: the lines printed for it carry pairwise
\* different indices, and each shows the row of the dataset at its index.
\* For the generated drift matrix of IRIS the row is shown joined.
IndexIsDatasetPosition(ns) ==
    /\ (nb \in ns \ {"IRIS"} /\ Pos(nb, "replay") > 0 /\ pc >= Pos(nb, "replay")) =>
          /\ \A k \in 1..Len(triples) : ShowsRowAtIndex(triples[k])
          /\ \A k \in 1..Len(triples) : \A m \in 1..Len(triples) :
                triples[k].index = triples[m].index => k = m
    /\ (nb \in ns /\ InBaselineReplay) =>
          /\ \A k \in 1..Len(triples) : ShowsRowAtIndex(triples[k])
          /\ \A k \in 1..Len(triples) : \A m \in 1..Len(triples) :
                triples[k].index = triples[m].index => k = m
    /\ (nb \in ns /\ Running /\ Cur.kind = "replay" /\ Cur.style = "joined") =>
          \A k \in 1..Len(DriftLines) :
              /\ DriftLines[k].index = k - 1
              /\ DriftLines[k].input =
                    Join([j \in 1..Len(df.columns) |-> df.data[j][k].repr])

\* C26.  In every replay loop of the repository the index of a printed line
\* is the zero-based position of its row in the dataset being replayed.
C26_IndexIsDatasetPosition == IndexIsDatasetPosition(Notebooks)

\* the baseline replay of IRIS has run through its batch without a failure
BaselineDone ==
    nb = "IRIS" /\ halted = "no" /\ pc = Pos("IRIS", "replay") + 1

\* how many of the rows submitted are `row`, and how many rows of the frame
\* have `row` as their feature fields
TimesSubmitted(row) ==
    Cardinality({ i \in 1..Len(submitted) : submitted[i] = row })
TimesInDataset(row) ==
    Cardinality({ k \in 1..df.nrows : FeatureRow(k) = row })

\* C27.  The baseline replay of IRIS submits at most batch_size rows; every
\* row submitted is a row of the frame, and no row is submitted more often
\* than the frame holds it; run through without a failure over candidate rows
\* none of which is empty, it has submitted min(batch_size, number of
\* candidate rows) rows.
C27_BaselineReplayIsBounded ==
    (InBaselineReplay \/ BaselineDone) =>
        /\ Len(submitted) <= batch_size
        /\ \A i \in 1..Len(submitted) :
              /\ TimesInDataset(submitted[i]) >= 1
              /\ TimesSubmitted(submitted[i]) <= TimesInDataset(submitted[i])
        /\ (BaselineDone /\ \A i \in 1..Len(samples) : Len(samples[i]) > 0) =>
              Len(submitted) = (IF Len(samples) < batch_size THEN Len(samples)
                                ELSE batch_size)

\* the batch was cut out of more candidate rows than it holds
C27_Witness ==
    /\ BaselineDone
    /\ Len(samples) > batch_size
    /\ Len(submitted) = batch_size

====
